---------------------------- MODULE Spec2Model ----------------------------
(***************************************************************************)
(* Model of sanitized_jellyfin_script.py: the "Now on Jellyfin" mailer.    *)
(*                                                                         *)
(*   SpecCache  sequences of get_cached_image calls on one cache directory *)
(*   Spec       one whole run of send_jellyfin_email                       *)
(*   SpecRace   two runs inside get_cached_image for the same key          *)
(*                                                                         *)
(* Bytes are sequences of small numbers; the first one plays the role of   *)
(* the magic number MIMEImage looks at.  Strings built with f-strings are  *)
(* tuples of their pieces.                                                 *)
(***************************************************************************)
EXTENDS Integers, Sequences, FiniteSets, TLC

VARIABLES
    disk,       \* the cache directories: cache path -> file
    last,       \* SpecCache: the get_cached_image call that just returned
    stored,     \* SpecCache: per path, the bytes the populating call returned
    ncalls,     \* SpecCache: number of calls made so far
    pc,         \* Spec: where the run is
    environ,    \* Spec: the required settings that are set in os.environ
    fetched,    \* Spec: what the listing request came back with
    items,      \* Spec: the value get_latest_items returned
    idx,        \* Spec: position of the for loop in items[:10]
    c,          \* Spec: html_content, msg_root, poster_cid and logo_cid
    log,        \* Spec: the external calls of the run, in order
    used,       \* Spec: the outcomes the cache calls of the run consumed
    disk0,      \* Spec: the cache directories as the run found them
    faults,     \* Spec: cache calls so far with another outcome than the nominal
    rpc,        \* SpecRace: per run, its position in get_cached_image
    rloc,       \* SpecRace: per run, r.content, the file offset and the result
    served      \* SpecRace: the bodies of the responses that passed the status check

cacheVars == <<last, stored, ncalls>>

runVars == <<pc, environ, fetched, items, idx, c, log, used, disk0, faults>>

raceVars == <<rpc, rloc, served>>

vars == <<disk, last, stored, ncalls, pc, environ, fetched, items, idx, c, log,
          used, disk0, faults, rpc, rloc, served>>

----------------------------------------------------------------------------
(* Bounds *)

MaxCalls == 3       \* get_cached_image calls in one SpecCache behaviour
MaxShort == 2       \* length of the listings built from every kind of item
MaxLong == 11       \* length of the listings that reach past the item limit
MaxFaults == 1      \* cache calls of a run whose outcome is not the nominal one

\* "for item in items[:10]"
MaxItems == 10

----------------------------------------------------------------------------
(* Values *)

Ids == {"a", "b"}

POSTER_CACHE_DIR == "cache/posters"
LOGO_CACHE_DIR == "cache/logos"

poster_path(item_id) == <<POSTER_CACHE_DIR, item_id, ".jpg">>
logo_path(item_id) == <<LOGO_CACHE_DIR, item_id, ".png">>

poster_url(item_id) == <<"/Items/", item_id, "/Images/Primary?maxWidth=300">>
logo_url(item_id) == <<"/Items/", item_id, "/Images/Logo?maxWidth=300">>

CachePaths == {poster_path(i) : i \in Ids} \cup {logo_path(i) : i \in Ids}

\* Response bodies an image endpoint can send: nothing, two images, a
\* body that is no image (an error page, say).
EMPTY == <<>>
IMG1 == <<1, 1>>
IMG2 == <<2, 2>>
JUNK == <<9, 9>>
Bodies == {EMPTY, IMG1, IMG2, JUNK}

NoFile == [present |-> FALSE, bytes |-> <<>>]
File(b) == [present |-> TRUE, bytes |-> b]

None == [some |-> FALSE, bytes |-> <<>>]
Some(b) == [some |-> TRUE, bytes |-> b]

\* Python truthiness of "bytes or None": None and b"" are false.
Truthy(v) == v.some /\ v.bytes # <<>>

Statuses == {200, 304, 404, 500}

\* What requests.get can come back with: an exception (connection error or
\* timeout), or a response with a status and a body.
NetError == [net |-> "error", status |-> 0, body |-> <<>>]
NetTimeout == [net |-> "timeout", status |-> 0, body |-> <<>>]
Response(s, b) == [net |-> "ok", status |-> s, body |-> b]

ImageResponses ==
    {Response(200, b) : b \in Bodies}
        \cup {Response(304, EMPTY), Response(404, JUNK), Response(500, JUNK)}

HttpOutcomes == {NetError, NetTimeout} \cup ImageResponses

\* r.raise_for_status(): raises for 4xx and 5xx, and for nothing else.
RaisesForStatus(status) == status >= 400 /\ status < 600

\* requests.get(...) followed by raise_for_status() got through.
HttpPassed(h) == h.net = "ok" /\ ~RaisesForStatus(h.status)

\* open(cache_path, "wb") / f.write(r.content): all fine, open() raises, or
\* the file is created and the write (or the flush on close) raises with
\* only a leading part of the content on disk.
WriteOutcomes == {"ok", "openfail", "partial"}
ReadOutcomes == {"ok", "fail"}

Front(b) == IF b = <<>> THEN <<>> ELSE SubSeq(b, 1, Len(b) - 1)

Outcomes == [http : HttpOutcomes, wr : WriteOutcomes, rd : ReadOutcomes]

Nominal == [http |-> Response(200, IMG1), wr |-> "ok", rd |-> "ok"]

----------------------------------------------------------------------------
(* get_cached_image *)

\* os.path.exists(cache_path)
Exists(d, path) == d[path].present

\* The trailing try block: open(cache_path, "rb") and f.read().
ReadBack(d, path, o) ==
    IF o.rd = "ok" /\ d[path].present THEN Some(d[path].bytes) ELSE None

\* The branch taken when no file exists: GET, raise_for_status, write.
\* Gives the disk afterwards and whether the function goes on to the read.
Download(d, path, o) ==
    IF ~HttpPassed(o.http)
    THEN [disk |-> d, goes_on |-> FALSE, wrote |-> FALSE]
    ELSE IF o.wr = "openfail"
    THEN [disk |-> d, goes_on |-> FALSE, wrote |-> FALSE]
    ELSE IF o.wr = "partial"
    THEN [disk |-> [d EXCEPT ![path] = File(Front(o.http.body))],
          goes_on |-> FALSE, wrote |-> TRUE]
    ELSE [disk |-> [d EXCEPT ![path] = File(o.http.body)],
          goes_on |-> TRUE, wrote |-> TRUE]

\* A variant that downloads whether or not the file exists.
get_cached_image_refetch(d, path, o) ==
    LET dl == Download(d, path, o)
    IN  [disk |-> dl.disk,
         result |-> IF dl.goes_on THEN ReadBack(dl.disk, path, o) ELSE None,
         requests |-> 1,
         wrote |-> dl.wrote,
         read |-> dl.goes_on]

\* A variant that requests the image again when the cached file cannot be
\* read.
get_cached_image_redownload(d, path, o) ==
    IF ~Exists(d, path) \/ o.rd = "fail"
    THEN LET dl == Download(d, path, o)
         IN  [disk |-> dl.disk,
              result |-> IF dl.goes_on THEN ReadBack(dl.disk, path, o) ELSE None,
              requests |-> 1,
              wrote |-> dl.wrote,
              read |-> dl.goes_on]
    ELSE [disk |-> d,
          result |-> ReadBack(d, path, o),
          requests |-> 0,
          wrote |-> FALSE,
          read |-> TRUE]

\* get_cached_image(url, cache_path, headers) run on disk d with the outcomes
\* o of its external calls: the disk afterwards, the value returned, the
\* number of HTTP requests issued, whether the file was opened for writing
\* and whether it was opened for reading.
get_cached_image(d, path, o) ==
    IF ~Exists(d, path)
    THEN LET dl == Download(d, path, o)
         IN  [disk |-> dl.disk,
              result |-> IF dl.goes_on THEN ReadBack(dl.disk, path, o) ELSE None,
              requests |-> 1,
              wrote |-> dl.wrote,
              read |-> dl.goes_on]
    ELSE [disk |-> d,
          result |-> ReadBack(d, path, o),
          requests |-> 0,
          wrote |-> FALSE,
          read |-> TRUE]

\* The part of the outcomes a call on disk d consumes (the rest is never
\* looked at, so it is blanked in what is recorded).
Consumed(d, path, o) ==
    IF Exists(d, path)
    THEN [http |-> NetError, wr |-> "ok", rd |-> o.rd]
    ELSE IF ~HttpPassed(o.http)
    THEN [http |-> o.http, wr |-> "ok", rd |-> "ok"]
    ELSE IF o.wr # "ok"
    THEN [http |-> o.http, wr |-> o.wr, rd |-> "ok"]
    ELSE o

----------------------------------------------------------------------------
(* Configuration *)

required_vars ==
    <<"JELLYFIN_API_URL", "JELLYFIN_API_TOKEN", "SENDER_EMAIL",
      "SENDER_PASSWORD", "RECIPIENT_EMAILS">>

RequiredVars == {required_vars[i] : i \in DOMAIN required_vars}

RECIPIENT_EMAILS == <<"r1@example.org", "r2@example.org">>

\* A validation that forgets the last entry of required_vars.
FirstMissing_short(env) ==
    LET bad == {i \in 1..(Len(required_vars) - 1) : required_vars[i] \notin env}
    IN  IF bad = {} THEN 0 ELSE CHOOSE i \in bad : \A j \in bad : i <= j

\* The validation loop: the position in required_vars of the first variable
\* os.getenv finds unset or empty, 0 when there is none.
FirstMissing(env) ==
    LET bad == {i \in DOMAIN required_vars : required_vars[i] \notin env}
    IN  IF bad = {} THEN 0 ELSE CHOOSE i \in bad : \A j \in bad : i <= j

----------------------------------------------------------------------------
(* The listing *)

ABSENT == "<absent>"

\* An element of the listing: a JSON object with some of the keys Id, Name
\* and Type, or a JSON value that is no object.
Item(id, name, type) == [obj |-> TRUE, Id |-> id, Name |-> name, Type |-> type]
NonObject == [obj |-> FALSE, Id |-> ABSENT, Name |-> ABSENT, Type |-> ABSENT]

ItemA == Item("a", "Film A", "Movie")
ItemB == Item("b", ABSENT, ABSENT)
NoIdItem == Item(ABSENT, "Untitled", "Episode")

ItemKinds == {ItemA, ItemB, NoIdItem, NonObject}

\* JSON values as Python sees them: the type, the truth value, and what
\* iterating the value yields (the characters of a string are strings).
Array(v) == [t |-> "array", truthy |-> v # <<>>, v |-> v]
JsonObject(nonempty) == [t |-> "object", truthy |-> nonempty, v |-> <<>>]
JsonString(nonempty) ==
    [t |-> "string", truthy |-> nonempty,
     v |-> IF nonempty THEN <<NonObject>> ELSE <<>>]
JsonNumber(nonzero) == [t |-> "number", truthy |-> nonzero, v |-> <<>>]
JsonNull == [t |-> "null", truthy |-> FALSE, v |-> <<>>]

OtherJson ==
    {JsonObject(b) : b \in BOOLEAN} \cup {JsonString(b) : b \in BOOLEAN}
        \cup {JsonNumber(b) : b \in BOOLEAN} \cup {JsonNull}

ShortListings == UNION {[1..n -> ItemKinds] : n \in 0..MaxShort}

LongItem(i) == IF i % 2 = 1 THEN ItemA ELSE ItemB

\* n items with ids, except that the p-th has none (p = 0: all have one).
LongListing(n, p) == [i \in 1..n |-> IF i = p THEN NoIdItem ELSE LongItem(i)]

\* n items of which only those after the MaxItems-th have an id.
IdlessHead(n) == [i \in 1..n |-> IF i <= MaxItems THEN NoIdItem ELSE ItemA]

LongListings ==
    {LongListing(n, p) : n \in MaxItems..MaxLong, p \in {0, 1}}
        \cup {IdlessHead(n) : n \in (MaxItems + 1)..MaxLong}

Listings == ShortListings \cup LongListings

\* The body of the listing response: JSON, or something response.json()
\* raises on.
Malformed == [json |-> FALSE, val |-> JsonNull]
Json(v) == [json |-> TRUE, val |-> v]

ListingOutcomes ==
    {NetError, NetTimeout}
        \cup {Response(st, Malformed) : st \in Statuses}
        \cup {Response(200, Json(Array(l))) : l \in Listings}
        \cup {Response(200, Json(v)) : v \in OtherJson}
        \cup {Response(500, Json(Array(<<ItemA>>)))}

NotFetched == Response(0, Malformed)

\* get_latest_items(): the parsed body, or [] when the request, the status
\* check or the parse raises.
get_latest_items(o) ==
    IF HttpPassed(o) /\ o.body.json THEN o.body.val ELSE Array(<<>>)

\* items[:10] raises TypeError unless items is a list or a string.
Sliceable(j) == j.t \in {"array", "string"}

\* A loop over items, not items[:10].
Slice_whole(j) == j.v

Slice(j) == SubSeq(j.v, 1, IF Len(j.v) < MaxItems THEN Len(j.v) ELSE MaxItems)

\* item.get("Id") is truthy.
HasId(item) == item.Id # ABSENT
title(item) == IF item.Name = ABSENT THEN "Unknown Title" ELSE item.Name
item_type(item) == IF item.Type = ABSENT THEN "Unknown" ELSE item.Type

----------------------------------------------------------------------------
(* The message *)

NoCid == [some |-> FALSE, cid |-> <<>>]
SomeCid(x) == [some |-> TRUE, cid |-> x]

poster_cid(item_id) == <<"poster_", item_id>>
logo_cid(item_id) == <<"logo_", item_id>>

\* html_content is the sequence of its pieces: the opening of the shell,
\* one block per item, the closing of the shell.  A block holds the title,
\* the type and the cids its <img> tags refer to.
ShellOpen ==
    [tag |-> "open", title |-> "", type |-> "", poster |-> NoCid, logo |-> NoCid]
ShellClose ==
    [tag |-> "close", title |-> "", type |-> "", poster |-> NoCid, logo |-> NoCid]
ItemBlock(ti, ty, p, l) ==
    [tag |-> "item", title |-> ti, type |-> ty, poster |-> p, logo |-> l]

\* An image part of msg_root: its Content-ID, its payload and the number of
\* the item block that was being built when it was attached.
ImagePart(cid, bytes, blk) == [cid |-> cid, bytes |-> bytes, blk |-> blk]

Blocks(html) == SelectSeq(html, LAMBDA b : b.tag = "item")

\* MIMEImage(bytes) guesses the subtype from the leading bytes and raises
\* TypeError when it cannot.
ImageWhat(bytes) == bytes # <<>> /\ bytes[1] \in {1, 2}

NoMessage ==
    [html_content |-> <<>>, msg_root |-> <<>>, poster_cid |-> NoCid,
     logo_cid |-> NoCid]

NewMessage == [NoMessage EXCEPT !.html_content = <<ShellOpen>>]

Ev(op, what) == [op |-> op, what |-> what]

\* The external calls one get_cached_image call makes, in order.
CallEvents(path, url, r) ==
    <<Ev("call", path)>>
        \o (IF r.requests = 1 THEN <<Ev("GET", url)>> ELSE <<>>)
        \o (IF r.wrote THEN <<Ev("write", path)>> ELSE <<>>)
        \o (IF r.read THEN <<Ev("read", path)>> ELSE <<>>)
        \o <<Ev("return", path)>>

\* A poster step that sets poster_cid whether or not bytes came back.
PosterStep_cid_always(m, d, item, o) ==
    LET r == get_cached_image(d, poster_path(item.Id), o)
        got == Truthy(r.result)
        raised == got /\ ~ImageWhat(r.result.bytes)
        part == ImagePart(poster_cid(item.Id), r.result.bytes,
                          Len(Blocks(m.html_content)) + 1)
    IN  [m |-> [m EXCEPT
                  !.poster_cid = SomeCid(poster_cid(item.Id)),
                  !.msg_root = IF got /\ ~raised THEN Append(@, part) ELSE @],
         disk |-> r.disk,
         events |-> CallEvents(poster_path(item.Id), poster_url(item.Id), r),
         fault |-> raised]

\* "Try to get poster image": the message m and the disk d afterwards, the
\* external calls made, and whether MIMEImage raised.
PosterStep(m, d, item, o) ==
    LET r == get_cached_image(d, poster_path(item.Id), o)
        got == Truthy(r.result)
        raised == got /\ ~ImageWhat(r.result.bytes)
        part == ImagePart(poster_cid(item.Id), r.result.bytes,
                          Len(Blocks(m.html_content)) + 1)
    IN  [m |-> [m EXCEPT
                  !.poster_cid = IF got THEN SomeCid(poster_cid(item.Id)) ELSE NoCid,
                  !.msg_root = IF got /\ ~raised THEN Append(@, part) ELSE @],
         disk |-> r.disk,
         events |-> CallEvents(poster_path(item.Id), poster_url(item.Id), r),
         fault |-> raised]

\* "Try to get logo image".
LogoStep(m, d, item, o) ==
    LET r == get_cached_image(d, logo_path(item.Id), o)
        got == Truthy(r.result)
        raised == got /\ ~ImageWhat(r.result.bytes)
        part == ImagePart(logo_cid(item.Id), r.result.bytes,
                          Len(Blocks(m.html_content)) + 1)
    IN  [m |-> [m EXCEPT
                  !.logo_cid = IF got THEN SomeCid(logo_cid(item.Id)) ELSE NoCid,
                  !.msg_root = IF got /\ ~raised THEN Append(@, part) ELSE @],
         disk |-> r.disk,
         events |-> CallEvents(logo_path(item.Id), logo_url(item.Id), r),
         fault |-> raised]

\* "Add HTML for this item".  poster_cid and logo_cid are set again before
\* they are next read, so they are cleared here.
BlockStep(m, item) ==
    [m EXCEPT
       !.html_content =
           Append(@, ItemBlock(title(item), item_type(item), m.poster_cid,
                               m.logo_cid)),
       !.poster_cid = NoCid,
       !.logo_cid = NoCid]

----------------------------------------------------------------------------
(* The mail session *)

\* Where the with-block raises, if it does.
SmtpOutcomes == {"connect", "starttls", "login", "sendmail", "ok"}

SmtpStages == <<"connect", "starttls", "login", "sendmail">>

StageNo(o) ==
    IF o = "ok" THEN Len(SmtpStages)
    ELSE CHOOSE i \in DOMAIN SmtpStages : SmtpStages[i] = o

\* The calls on the transport up to and including the one that raises.
SmtpEvents(o) ==
    [i \in 1..StageNo(o) |->
        Ev("smtp", IF SmtpStages[i] = "sendmail"
                   THEN <<"sendmail">> \o RECIPIENT_EMAILS
                   ELSE <<SmtpStages[i]>>)]

----------------------------------------------------------------------------
(* Spec: one run of the script *)

\* The outcomes a cache call of a run is given: every HTTP outcome with the
\* file operations working, every file failure with the nominal response,
\* and the read failure of a file that is already there (no response then).
RunOutcomes ==
    {o \in Outcomes :
        (o.wr # "ok" \/ o.rd # "ok") => o.http \in {Nominal.http, NetError}}

EmptyCache == [p \in CachePaths |-> NoFile]
WarmCache == [p \in CachePaths |-> File(IMG1)]

\* The cache directories as earlier runs can have left them.
InitDisks ==
    {EmptyCache, WarmCache,
     [EmptyCache EXCEPT ![poster_path("a")] = File(EMPTY)]}

RunStart(env) ==
    /\ pc = "idle"
    /\ environ = env
    /\ fetched = NotFetched
    /\ items = Array(<<>>)
    /\ idx = 0
    /\ c = NoMessage
    /\ log = <<>>
    /\ used = <<>>
    /\ disk0 = disk
    /\ faults = 0

RunIdle == RunStart(RequiredVars)

CacheIdle ==
    /\ last = [called |-> FALSE, path |-> poster_path("a"), existed |-> FALSE,
               o |-> Nominal, result |-> None, requests |-> 0,
               before |-> NoFile, others_kept |-> TRUE]
    /\ stored = [p \in CachePaths |-> None]
    /\ ncalls = 0

Runs == {1, 2}

RaceIdle ==
    /\ rpc = [p \in Runs |-> "exists"]
    /\ rloc = [p \in Runs |-> [content |-> <<>>, off |-> 0, result |-> None]]
    /\ served = {}

Init ==
    /\ disk \in InitDisks
    /\ \E env \in SUBSET RequiredVars : RunStart(env)
    /\ CacheIdle
    /\ RaceIdle

\* Import of the module: the configuration is read and the two cache
\* directories are created.
LoadModule ==
    /\ pc = "idle"
    /\ pc' = "validating"
    /\ log' = log \o <<Ev("makedirs", <<POSTER_CACHE_DIR>>),
                       Ev("makedirs", <<LOGO_CACHE_DIR>>)>>
    /\ UNCHANGED <<disk, environ, fetched, items, idx, c, used, disk0, faults>>
    /\ UNCHANGED <<cacheVars, raceVars>>

\* "Validate required environment variables".
ValidateConfig ==
    /\ pc = "validating"
    /\ pc' = IF FirstMissing(environ) # 0 THEN "done" ELSE "fetching"
    /\ UNCHANGED <<disk, environ, fetched, items, idx, c, log, used, disk0, faults>>
    /\ UNCHANGED <<cacheVars, raceVars>>

\* FetchItems without the "if not items" guard.
FetchItems_unguarded(o) ==
    /\ pc = "fetching"
    /\ fetched' = o
    /\ items' = get_latest_items(o)
    /\ log' = Append(log, Ev("listing", <<"JELLYFIN_API_URL">>))
    /\ pc' = "compose"
    /\ c' = NewMessage
    /\ UNCHANGED <<disk, environ, idx, used, disk0, faults>>
    /\ UNCHANGED <<cacheVars, raceVars>>

\* A guard that also ends the run when no listed item has an id.
FetchItems_suppress(o) ==
    /\ pc = "fetching"
    /\ fetched' = o
    /\ items' = get_latest_items(o)
    /\ log' = Append(log, Ev("listing", <<"JELLYFIN_API_URL">>))
    /\ LET j == get_latest_items(o)
       IN  IF \/ ~j.truthy
              \/ /\ j.t = "array"
                 /\ \A i \in DOMAIN j.v : j.v[i].obj /\ ~HasId(j.v[i])
           THEN pc' = "done" /\ c' = c
           ELSE pc' = "compose" /\ c' = NewMessage
    /\ UNCHANGED <<disk, environ, idx, used, disk0, faults>>
    /\ UNCHANGED <<cacheVars, raceVars>>

\* items = get_latest_items(), the "if not items" guard, and the creation of
\* the message.
FetchItems(o) ==
    /\ pc = "fetching"
    /\ fetched' = o
    /\ items' = get_latest_items(o)
    /\ log' = Append(log, Ev("listing", <<"JELLYFIN_API_URL">>))
    /\ IF ~get_latest_items(o).truthy
       THEN pc' = "done" /\ c' = c
       ELSE pc' = "compose" /\ c' = NewMessage
    /\ UNCHANGED <<disk, environ, idx, used, disk0, faults>>
    /\ UNCHANGED <<cacheVars, raceVars>>

\* The for statement evaluates items[:10].
EnterLoop ==
    /\ pc = "compose"
    /\ IF Sliceable(items)
       THEN pc' = "loop" /\ idx' = 1
       ELSE pc' = "fault" /\ idx' = idx
    /\ UNCHANGED <<disk, environ, fetched, items, c, log, used, disk0, faults>>
    /\ UNCHANGED <<cacheVars, raceVars>>

\* An iteration head that leaves the loop at an item with no Id.
NextItem_break ==
    /\ pc = "loop"
    /\ idx <= Len(Slice(items))
    /\ LET item == Slice(items)[idx]
       IN  IF ~item.obj THEN pc' = "fault" /\ idx' = idx
           ELSE IF ~HasId(item) THEN pc' = "loop" /\ idx' = Len(Slice(items)) + 1
           ELSE pc' = "poster" /\ idx' = idx
    /\ UNCHANGED <<disk, environ, fetched, items, c, log, used, disk0, faults>>
    /\ UNCHANGED <<cacheVars, raceVars>>

\* An iteration head that goes to the logo before the poster.
NextItem_logo_first ==
    /\ pc = "loop"
    /\ idx <= Len(Slice(items))
    /\ LET item == Slice(items)[idx]
       IN  IF ~item.obj THEN pc' = "fault" /\ idx' = idx
           ELSE IF ~HasId(item) THEN pc' = "loop" /\ idx' = idx + 1
           ELSE pc' = "logo" /\ idx' = idx
    /\ UNCHANGED <<disk, environ, fetched, items, c, log, used, disk0, faults>>
    /\ UNCHANGED <<cacheVars, raceVars>>

\* The head of an iteration: item.get raises on a non-object, an item with
\* no Id is skipped.
NextItem ==
    /\ pc = "loop"
    /\ idx <= Len(Slice(items))
    /\ LET item == Slice(items)[idx]
       IN  IF ~item.obj THEN pc' = "fault" /\ idx' = idx
           ELSE IF ~HasId(item) THEN pc' = "loop" /\ idx' = idx + 1
           ELSE pc' = "poster" /\ idx' = idx
    /\ UNCHANGED <<disk, environ, fetched, items, c, log, used, disk0, faults>>
    /\ UNCHANGED <<cacheVars, raceVars>>

\* A cache call of the run may be given outcome o for this path.
Allowed(path, o) ==
    /\ o \in RunOutcomes
    /\ Consumed(disk, path, o) = o
    /\ o # Consumed(disk, path, Nominal) => faults < MaxFaults

Charge(path, o) == IF o # Consumed(disk, path, Nominal) THEN 1 ELSE 0

GetPoster(o) ==
    /\ pc = "poster"
    /\ LET item == Slice(items)[idx]
           s == PosterStep(c, disk, item, o)
       IN  /\ Allowed(poster_path(item.Id), o)
           /\ faults' = faults + Charge(poster_path(item.Id), o)
           /\ c' = s.m
           /\ disk' = s.disk
           /\ log' = log \o s.events
           /\ pc' = IF s.fault THEN "fault" ELSE "logo"
    /\ used' = Append(used, o)
    /\ UNCHANGED <<environ, fetched, items, idx, disk0>>
    /\ UNCHANGED <<cacheVars, raceVars>>

GetLogo(o) ==
    /\ pc = "logo"
    /\ LET item == Slice(items)[idx]
           s == LogoStep(c, disk, item, o)
       IN  /\ Allowed(logo_path(item.Id), o)
           /\ faults' = faults + Charge(logo_path(item.Id), o)
           /\ c' = s.m
           /\ disk' = s.disk
           /\ log' = log \o s.events
           /\ pc' = IF s.fault THEN "fault" ELSE "block"
    /\ used' = Append(used, o)
    /\ UNCHANGED <<environ, fetched, items, idx, disk0>>
    /\ UNCHANGED <<cacheVars, raceVars>>

AppendBlock ==
    /\ pc = "block"
    /\ c' = BlockStep(c, Slice(items)[idx])
    /\ idx' = idx + 1
    /\ pc' = "loop"
    /\ UNCHANGED <<disk, environ, fetched, items, log, used, disk0, faults>>
    /\ UNCHANGED <<cacheVars, raceVars>>

\* After the loop: the shell is closed and the HTML is attached.
AttachHtml ==
    /\ pc = "loop"
    /\ idx > Len(Slice(items))
    /\ c' = [c EXCEPT !.html_content = Append(@, ShellClose)]
    /\ pc' = "dispatching"
    /\ UNCHANGED <<disk, environ, fetched, items, idx, log, used, disk0, faults>>
    /\ UNCHANGED <<cacheVars, raceVars>>

\* A send block that tries again after a failure.
SendMail_retry(o) ==
    /\ pc = "dispatching"
    /\ log' = log \o SmtpEvents(o)
    /\ pc' = IF o = "ok" THEN "done" ELSE "dispatching"
    /\ UNCHANGED <<disk, environ, fetched, items, idx, c, used, disk0, faults>>
    /\ UNCHANGED <<cacheVars, raceVars>>

\* "Send the email": the with-block and its except clause.
SendMail(o) ==
    /\ pc = "dispatching"
    /\ log' = log \o SmtpEvents(o)
    /\ pc' = "done"
    /\ UNCHANGED <<disk, environ, fetched, items, idx, c, used, disk0, faults>>
    /\ UNCHANGED <<cacheVars, raceVars>>

Next ==
    \/ LoadModule
    \/ ValidateConfig
    \/ \E o \in ListingOutcomes : FetchItems(o)
    \/ EnterLoop
    \/ NextItem
    \/ \E o \in Outcomes : GetPoster(o)
    \/ \E o \in Outcomes : GetLogo(o)
    \/ AppendBlock
    \/ AttachHtml
    \/ \E o \in SmtpOutcomes : SendMail(o)

Spec == Init /\ [][Next]_vars

----------------------------------------------------------------------------
(* SpecCache: calls of get_cached_image, one after the other, on a cache   *)
(* directory that starts empty.  Whether two calls belong to one run or to  *)
(* two is invisible here: the directory is all that outlives a call.        *)

InitCache ==
    /\ disk = EmptyCache
    /\ CacheIdle
    /\ RunIdle
    /\ RaceIdle

CachedImageCall(path, o) ==
    /\ ncalls < MaxCalls
    /\ Consumed(disk, path, o) = o
    /\ LET r == get_cached_image(disk, path, o)
       IN  /\ disk' = r.disk
           /\ last' = [called |-> TRUE, path |-> path,
                       existed |-> Exists(disk, path), o |-> o,
                       result |-> r.result, requests |-> r.requests,
                       before |-> disk[path],
                       others_kept |->
                           \A q \in CachePaths \ {path} : r.disk[q] = disk[q]]
           /\ stored' = IF ~Exists(disk, path) /\ Exists(r.disk, path)
                        THEN [stored EXCEPT ![path] = r.result]
                        ELSE stored
    /\ ncalls' = ncalls + 1
    /\ UNCHANGED <<runVars, raceVars>>

NextCache == \E path \in CachePaths, o \in Outcomes : CachedImageCall(path, o)

SpecCache == InitCache /\ [][NextCache]_vars

----------------------------------------------------------------------------
(* Claims about the image cache (SpecCache) *)

\* The claim's notion of a failed GET: a network error, a timeout or a
\* status outside 200..299.
FailedAsClaimed(h) == h.net # "ok" \/ h.status < 200 \/ h.status > 299

PopulatingCall ==
    /\ last.called
    /\ ~last.existed
    /\ HttpPassed(last.o.http)

\* C1 as stated: when no file exists and the GET succeeds, the call writes
\* the file for that path (and no other) and returns the response bytes;
\* a call that finds the file issues no request, leaves the file as it is
\* and returns the bytes the populating call returned.
C1_AsStated ==
    /\ PopulatingCall =>
           /\ last.result = Some(last.o.http.body)
           /\ disk[last.path] = File(last.o.http.body)
           /\ last.others_kept
    /\ (last.called /\ last.existed) =>
           /\ last.requests = 0
           /\ disk[last.path] = last.before
           /\ last.result = stored[last.path]

\* C1, amended: the same law for calls whose file write and read-back
\* succeed: a populating call with a successful write and read leaves
\* exactly the response body in the file and returns it after one request;
\* a call that finds the file issues no request, changes no file, and, when
\* its read succeeds, returns the file's bytes, which are the bytes the
\* populating call returned whenever that call returned any.
C1_CacheHitLaw ==
    /\ (PopulatingCall /\ last.o.wr = "ok" /\ last.o.rd = "ok") =>
           /\ last.result = Some(last.o.http.body)
           /\ disk[last.path] = File(last.o.http.body)
           /\ last.others_kept
           /\ last.requests = 1
    /\ (last.called /\ last.existed) =>
           /\ last.requests = 0
           /\ disk[last.path] = last.before
           /\ last.others_kept
           /\ last.o.rd = "ok" => last.result = Some(last.before.bytes)
           /\ (last.o.rd = "ok" /\ stored[last.path].some) =>
                  last.result = stored[last.path]
           /\ last.o.rd = "fail" => last.result = None

\* A hit on a file that an earlier call downloaded and returned.
C1_Witness ==
    /\ last.called
    /\ last.existed
    /\ stored[last.path] = Some(IMG1)
    /\ last.result = Some(IMG1)
    /\ last.requests = 0

\* C2: when no file exists and the GET fails (network error, timeout or a
\* non-2xx status), the call returns None and there is still no file for
\* that path (so the next call for it requests again).
C2_FailedFetchLeavesNoFile ==
    (last.called /\ ~last.existed /\ FailedAsClaimed(last.o.http)) =>
        /\ last.result = None
        /\ ~Exists(disk, last.path)

----------------------------------------------------------------------------
(* The composition as one function: what the loop and the closing of the   *)
(* shell make of a listing, on disk d, when the k-th cache call is given    *)
(* the k-th outcome of outs (and the nominal one from there on).            *)

OutcomeAt(outs, k, d, path) ==
    IF k <= Len(outs) THEN outs[k] ELSE Consumed(d, path, Nominal)

RECURSIVE ComposeFrom(_, _, _, _)
ComposeFrom(todo, st, outs, k) ==
    IF todo = <<>> \/ st.fault THEN st
    ELSE LET item == Head(todo)
         IN  IF ~item.obj THEN [st EXCEPT !.fault = TRUE]
             ELSE IF ~HasId(item) THEN ComposeFrom(Tail(todo), st, outs, k)
             ELSE LET p == PosterStep(st.m, st.disk, item,
                              OutcomeAt(outs, k, st.disk, poster_path(item.Id)))
                      l == LogoStep(p.m, p.disk, item,
                              OutcomeAt(outs, k + 1, p.disk, logo_path(item.Id)))
                  IN  IF p.fault
                      THEN [m |-> p.m, disk |-> p.disk,
                            events |-> st.events \o p.events, fault |-> TRUE]
                      ELSE ComposeFrom(Tail(todo),
                               [m |-> IF l.fault THEN l.m ELSE BlockStep(l.m, item),
                                disk |-> l.disk,
                                events |-> st.events \o p.events \o l.events,
                                fault |-> l.fault],
                               outs, k + 2)

compose(listing, d, outs) ==
    LET st == ComposeFrom(Slice(Array(listing)),
                  [m |-> NewMessage, disk |-> d, events |-> <<>>, fault |-> FALSE],
                  outs, 1)
    IN  IF st.fault THEN st
        ELSE [st EXCEPT !.m.html_content = Append(@, ShellClose)]

----------------------------------------------------------------------------
(* Claims about a run (Spec) *)

\* The message has been composed: the shell is closed and the HTML attached.
Composed == pc \in {"dispatching", "done"} /\ c.html_content # <<>>

Ops(l) == {l[i].op : i \in DOMAIN l}

ImageEvents(l) ==
    SelectSeq(l, LAMBDA e : e.op \in {"call", "GET", "write", "read", "return"})

Leading(s, n) == SubSeq(s, 1, IF Len(s) < n THEN Len(s) ELSE n)

\* What the blocks of a sequence of items show.
Rendering(its) == [i \in DOMAIN its |-> <<title(its[i]), item_type(its[i])>>]
Rendered(html) ==
    [i \in DOMAIN Blocks(html) |-> <<Blocks(html)[i].title, Blocks(html)[i].type>>]

\* C3: with a required setting missing, the run ends in the validation: it
\* never gets to the listing request, and nothing but the creation of the
\* cache directories at import is ever done: no listing request, no image
\* request, no read or write of a cache file, no call on the mail transport.
C3_MissingSettingAborts ==
    environ # RequiredVars =>
        /\ pc \in {"idle", "validating", "done"}
        /\ Ops(log) \subseteq {"makedirs"}
        /\ disk = disk0
        /\ c = NoMessage

C3_Witness ==
    /\ pc = "done"
    /\ environ = RequiredVars \ {"RECIPIENT_EMAILS"}

\* C4: when get_latest_items returns no items, the run ends with no call on
\* the mail transport, no image request and no cache write.
C4_NoItemsNoMail ==
    (fetched # NotFetched /\ ~items.truthy) =>
        /\ pc = "done"
        /\ Ops(log) \subseteq {"makedirs", "listing"}
        /\ disk = disk0

C4_Witness ==
    /\ pc = "done"
    /\ fetched = Response(200, Json(Array(<<>>)))
    /\ items = Array(<<>>)

\* C5 as stated: the blocks of the composed body are the items that have an
\* Id, in listing order, cut to the first 10 of them.
C5_AsStated ==
    Composed =>
        Rendered(c.html_content)
            = Rendering(Leading(SelectSeq(items.v, HasId), MaxItems))

\* C5, amended: the blocks of the composed body are, one each and in listing
\* order, the items that have an Id among the first 10 items of the listing.
C5_BlocksOfFirstTen ==
    Composed =>
        Rendered(c.html_content)
            = Rendering(SelectSeq(Leading(items.v, MaxItems), HasId))

\* A listing of more than 10 items whose first item has no Id: 9 blocks.
C5_Witness ==
    /\ Composed
    /\ Len(items.v) > MaxItems
    /\ ~HasId(items.v[1])
    /\ Len(Blocks(c.html_content)) = MaxItems - 1

SameComposition(listing) ==
    LET other == compose(listing, disk0, used)
    IN  /\ ~other.fault
        /\ c.html_content = other.m.html_content
        /\ c.msg_root = other.m.msg_root
        /\ ImageEvents(log) = other.events
        /\ disk = other.disk

\* C6 as stated: composing the listing and composing the listing without
\* its items that have no Id, on the same cache and with the same outcomes
\* of the cache calls, give the same blocks, the same image fetches and the
\* same image parts.
C6_AsStated == Composed => SameComposition(SelectSeq(items.v, HasId))

\* C6, amended: the same, for the first 10 items of the listing without
\* those of them that have no Id.
C6_IdlessItemsAreInert ==
    Composed => SameComposition(SelectSeq(Leading(items.v, MaxItems), HasId))

\* An item with no Id before an item whose images were attached.
C6_Witness ==
    /\ Composed
    /\ Len(items.v) > 1
    /\ ~HasId(items.v[1])
    /\ Len(Blocks(c.html_content)) >= 1
    /\ Len(c.msg_root) >= 2

\* C7: the Content-IDs of the image parts of a message handed to the
\* dispatcher are pairwise distinct.
C7_DistinctContentIds ==
    pc \in {"dispatching", "done"} =>
        \A i, j \in DOMAIN c.msg_root :
            i # j => c.msg_root[i].cid # c.msg_root[j].cid

PartsOf(k) == {i \in DOMAIN c.msg_root : c.msg_root[i].blk = k}

ListingFailed(o) ==
    \/ FailedAsClaimed(o)
    \/ ~o.body.json
    \/ o.body.val.t # "array"
    \/ \E i \in DOMAIN o.body.val.v : ~o.body.val.v[i].obj

\* C9: after a listing failure get_latest_items has returned nothing to
\* iterate over, no image request, no cache access and no call on the mail
\* transport is made, and the run ends by returning, not by a fault.
C9_ListingFailSoft ==
    (fetched # NotFetched /\ ListingFailed(fetched)) =>
        /\ Ops(log) \subseteq {"makedirs", "listing"}
        /\ disk = disk0
        /\ pc \in {"done", "fault"} =>
               /\ pc = "done"
               /\ ~items.truthy
               /\ items.v = <<>>

----------------------------------------------------------------------------
(* SpecRace: two runs in get_cached_image for the same cache path, one     *)
(* statement at a time.  The file operations themselves work; what varies   *)
(* is the response each run gets and the order of the steps.  A write of n  *)
(* bytes reaches the file as up to n writes at the offset of the writer's   *)
(* own file object.                                                         *)

RacePath == poster_path("a")

InitRace ==
    /\ disk = EmptyCache
    /\ CacheIdle
    /\ RunIdle
    /\ RaceIdle

\* bytes after a write of the byte ch at offset off (a write past the end
\* leaves a hole of zeros).
WriteAt(bytes, off, ch) ==
    [i \in 1..(IF Len(bytes) > off THEN Len(bytes) ELSE off + 1) |->
        IF i = off + 1 THEN ch
        ELSE IF i <= Len(bytes) THEN bytes[i]
        ELSE 0]

\* if not os.path.exists(cache_path)
RaceExists(p) ==
    /\ rpc[p] = "exists"
    /\ rpc' = [rpc EXCEPT ![p] = IF Exists(disk, RacePath) THEN "read" ELSE "get"]
    /\ UNCHANGED <<disk, rloc, served, cacheVars, runVars>>

\* r = requests.get(...); r.raise_for_status()
RaceGet(p, h) ==
    /\ rpc[p] = "get"
    /\ IF HttpPassed(h)
       THEN /\ rpc' = [rpc EXCEPT ![p] = "open"]
            /\ rloc' = [rloc EXCEPT ![p].content = h.body]
            /\ served' = served \cup {h.body}
       ELSE /\ rpc' = [rpc EXCEPT ![p] = "return"]
            /\ rloc' = [rloc EXCEPT ![p].result = None]
            /\ served' = served
    /\ UNCHANGED <<disk, cacheVars, runVars>>

\* open(cache_path, "wb"): the file is created, or cut to length 0.
RaceOpen(p) ==
    /\ rpc[p] = "open"
    /\ disk' = [disk EXCEPT ![RacePath] = File(<<>>)]
    /\ rloc' = [rloc EXCEPT ![p].off = 0]
    /\ rpc' = [rpc EXCEPT ![p] = "write"]
    /\ UNCHANGED <<served, cacheVars, runVars>>

\* f.write(r.content), one byte of it.
RaceWrite(p) ==
    /\ rpc[p] = "write"
    /\ rloc[p].off < Len(rloc[p].content)
    /\ disk' = [disk EXCEPT ![RacePath] =
                   File(WriteAt(@.bytes, rloc[p].off,
                                rloc[p].content[rloc[p].off + 1]))]
    /\ rloc' = [rloc EXCEPT ![p].off = @ + 1]
    /\ UNCHANGED <<rpc, served, cacheVars, runVars>>

\* The end of the with-block: the file is closed.
RaceClose(p) ==
    /\ rpc[p] = "write"
    /\ rloc[p].off = Len(rloc[p].content)
    /\ rpc' = [rpc EXCEPT ![p] = "read"]
    /\ UNCHANGED <<disk, rloc, served, cacheVars, runVars>>

\* with open(cache_path, "rb") as f: return f.read()
RaceRead(p) ==
    /\ rpc[p] = "read"
    /\ rloc' = [rloc EXCEPT ![p].result = Some(disk[RacePath].bytes)]
    /\ rpc' = [rpc EXCEPT ![p] = "return"]
    /\ UNCHANGED <<disk, served, cacheVars, runVars>>

NextRace ==
    \E p \in Runs :
        \/ RaceExists(p)
        \/ \E h \in HttpOutcomes : RaceGet(p, h)
        \/ RaceOpen(p)
        \/ RaceWrite(p)
        \/ RaceClose(p)
        \/ RaceRead(p)

SpecRace == InitRace /\ [][NextRace]_vars

\* C10: under every interleaving, what a run gets back is None or the whole
\* body of a response that passed the status check, and once both runs have
\* returned the file, if there is one, holds such a body.
C10_BenignRace ==
    /\ \A p \in Runs :
           (rpc[p] = "return" /\ rloc[p].result.some) =>
               rloc[p].result.bytes \in served
    /\ (\A p \in Runs : rpc[p] = "return") =>
           (Exists(disk, RacePath) => disk[RacePath].bytes \in served)

----------------------------------------------------------------------------
(* Order of the external calls of a run (Spec) *)

\* The items of the listing the loop retains.
Kept == SelectSeq(Leading(items.v, MaxItems), HasId)

\* The cache paths of the get_cached_image calls of the log, in order.
CallPaths(l) ==
    LET calls == SelectSeq(l, LAMBDA e : e.op = "call")
    IN  [i \in DOMAIN calls |-> calls[i].what]

\* Poster then logo of the first item, poster then logo of the second, ...
ExpectedCalls(its) ==
    [i \in 1..(2 * Len(its)) |->
        IF i % 2 = 1 THEN poster_path(its[(i + 1) \div 2].Id)
        ELSE logo_path(its[i \div 2].Id)]

IsPrefix(s, t) == Len(s) <= Len(t) /\ SubSeq(t, 1, Len(s)) = s

\* C11: the cache calls of a run are those of the retained items in item
\* order, poster before logo; each call has returned before the next one
\* starts; and the one listing request comes before all of them.  When the
\* message is composed every retained item has had both its calls.
C11_CallsInItemOrder ==
    LET requests == SelectSeq(log, LAMBDA e : e.op # "makedirs")
        marks == SelectSeq(log, LAMBDA e : e.op \in {"call", "return"})
    IN  /\ \A i \in DOMAIN requests : requests[i].op = "listing" <=> i = 1
        /\ Len(marks) % 2 = 0
        /\ \A i \in DOMAIN marks :
               IF i % 2 = 1 THEN marks[i].op = "call"
               ELSE marks[i] = Ev("return", marks[i - 1].what)
        /\ IsPrefix(CallPaths(log), ExpectedCalls(Kept))
        /\ Composed => CallPaths(log) = ExpectedCalls(Kept)

\* Two retained items, four calls.
C11_Witness ==
    /\ Composed
    /\ Len(Kept) = 2
    /\ Kept[1].Id # Kept[2].Id
    /\ Len(CallPaths(log)) = 4

----------------------------------------------------------------------------
(* The dispatch (Spec) *)

\* The calls on the mail transport, in order.
SmtpCalls(l) ==
    LET smtp == SelectSeq(l, LAMBDA e : e.op = "smtp")
    IN  [i \in DOMAIN smtp |-> smtp[i].what]

\* One session: connect, upgrade, authenticate, one submit to everybody.
OneSession ==
    <<(<<"connect">>), (<<"starttls">>), (<<"login">>),
      (<<"sendmail">> \o RECIPIENT_EMAILS)>>

\* C12: the calls on the mail transport of a run are the leading part of one
\* session (one connect, at most one submit, to all recipients together);
\* they are the last calls of the run, made when every retained item has had
\* its calls and its block; and whether the session fails at the connect,
\* the upgrade, the login or the submit, or succeeds, the run is then done:
\* nothing is tried again.
C12_OneDispatch ==
    LET smtp == SmtpCalls(log)
    IN  /\ IsPrefix(smtp, OneSession)
        /\ smtp # <<>> =>
               /\ pc = "done"
               /\ Composed
               /\ Len(Blocks(c.html_content)) = Len(Kept)
               /\ CallPaths(log) = ExpectedCalls(Kept)
               /\ SmtpCalls(SubSeq(log, Len(log) - Len(smtp) + 1, Len(log))) = smtp
        /\ (pc = "done" /\ Composed) => smtp # <<>>

\* A session that failed at the login, after an item was composed.
C12_Witness ==
    /\ pc = "done"
    /\ Composed
    /\ Len(Kept) >= 1
    /\ SmtpCalls(log) = SubSeq(OneSession, 1, 3)

----------------------------------------------------------------------------
(* The course of a run (Spec) *)

\* The lifecycle state a position of the run belongs to.
Lifecycle ==
    CASE pc = "idle" -> "Idle"
      [] pc = "validating" -> "ValidatingConfig"
      [] pc = "fetching" -> "FetchingItems"
      [] pc \in {"compose", "loop", "poster", "logo", "block"} -> "Composing"
      [] pc = "dispatching" -> "Dispatching"
      [] pc = "done" -> "Done"
      [] OTHER -> "Fault"

\* C13: whatever the external calls of a run answer, the run is in one of
\* the lifecycle states Idle, ValidatingConfig, FetchingItems, Composing,
\* Dispatching and Done, and no failure leaves it as an exception nobody
\* handles. Stated for the runs whose listing is an array of objects, so
\* that the listing itself is not the failure.
C13_NoUnhandledFault ==
    ~ListingFailed(fetched) => Lifecycle # "Fault"

----------------------------------------------------------------------------
(* A listing without identities (Spec) *)

\* The listing is not empty and none of its first MaxItems items has an id.
NoIdentities ==
    /\ items.t = "array"
    /\ items.v # <<>>
    /\ \A i \in DOMAIN Leading(items.v, MaxItems) :
           items.v[i].obj /\ ~HasId(items.v[i])

\* C14: for a listing that is not empty and whose first MaxItems items all
\* lack an id, the run makes no image request and touches no cache file,
\* does not fail, and does not end before the dispatch: what it hands to the
\* mail transport is the fixed shell with no block and no image part, in one
\* session.
C14_ShellOnlyMessage ==
    NoIdentities =>
        /\ Ops(log) \subseteq {"makedirs", "listing", "smtp"}
        /\ disk = disk0
        /\ used = <<>>
        /\ pc # "fault"
        /\ pc = "done" =>
               /\ c.html_content = <<ShellOpen, ShellClose>>
               /\ c.msg_root = <<>>
               /\ SmtpCalls(log) # <<>>
               /\ SmtpCalls(log)[1] = <<"connect">>
               /\ Len(SelectSeq(SmtpCalls(log), LAMBDA w : w = <<"connect">>)) = 1

\* Eleven items of which only the last has an id: the shell went out alone.
C14_Witness ==
    /\ NoIdentities
    /\ Len(items.v) > MaxItems
    /\ \E i \in DOMAIN items.v : HasId(items.v[i])
    /\ pc = "done"
    /\ SmtpCalls(log) = OneSession

----------------------------------------------------------------------------
(* What a cache file holds (SpecCache) *)

\* C15: a cache file that a call of get_cached_image leaves where there was
\* none holds exactly the whole body of the response the call received; and
\* a call whose write of the file fails returns absence and leaves no file
\* that a later call would serve.
C15_CacheFileIntegrity ==
    (last.called /\ ~last.existed) =>
        /\ Exists(disk, last.path) =>
               /\ HttpPassed(last.o.http)
               /\ disk[last.path] = File(last.o.http.body)
        /\ (HttpPassed(last.o.http) /\ last.o.wr # "ok") =>
               /\ last.result = None
               /\ ~Exists(disk, last.path)

----------------------------------------------------------------------------
(* A cache file that cannot be read (Spec) *)

\* The cache path the run is about to ask for.
PathAt ==
    IF pc = "poster" THEN poster_path(Slice(items)[idx].Id)
    ELSE logo_path(Slice(items)[idx].Id)

\* The step is a call of get_cached_image for a path whose file exists and
\* whose read fails.
HitReadFails ==
    /\ pc \in {"poster", "logo"}
    /\ Len(used') = Len(used) + 1
    /\ Exists(disk, PathAt)
    /\ used'[Len(used')].rd = "fail"

\* C16: a call of get_cached_image that finds the file and fails to read it
\* opens the file for reading and nothing else (no request, no write), leaves
\* every cache file as it was, and gives absence: no image part is attached
\* and the content id stays unset. The run goes on with the next step of the
\* same item, every item that reaches its block step gets its block, and a
\* composed message has one block for each retained item.
C16_ReadFailureConfined ==
    [][/\ HitReadFails =>
              /\ disk' = disk
              /\ SubSeq(log', Len(log) + 1, Len(log')) =
                     <<Ev("call", PathAt), Ev("read", PathAt), Ev("return", PathAt)>>
              /\ c'.msg_root = c.msg_root
              /\ c'.html_content = c.html_content
              /\ pc = "poster" => pc' = "logo" /\ c'.poster_cid = NoCid
              /\ pc = "logo" => pc' = "block" /\ c'.logo_cid = NoCid
       /\ pc = "block" =>
              /\ pc' = "loop"
              /\ Len(Blocks(c'.html_content)) = Len(Blocks(c.html_content)) + 1
       /\ Composed' => Rendered(c'.html_content) = Rendering(Kept')
      ]_vars

\* A composed message of two items where the read of a cached file failed
\* before the last image call.
C16_Witness ==
    /\ Composed
    /\ Len(Kept) = 2
    /\ Len(Blocks(c.html_content)) = 2
    /\ Len(used) = 4
    /\ \E k \in 1..3 : used[k] = [http |-> NetError, wr |-> "ok", rd |-> "fail"]
    /\ Ev("GET", poster_url(Kept[1].Id)) \notin {log[i] : i \in DOMAIN log}
    /\ disk = disk0

=============================================================================
